---------------------------- MODULE Spec2Model ----------------------------
(***************************************************************************)
(* A model of legal_api.models.business.Business (annual-report window,   *)
(* good standing, identifier validation, save/delete) and of the          *)
(* dissolution filing validator.                                           *)
(*                                                                         *)
(* A date is a record [year, month, day]; a datetime adds `tick', the     *)
(* time of day in units of 1/TicksPerDay of a day.  Python's None is the  *)
(* record None, an unset legal type the string NoLegalType.  `filing' is   *)
(* the filing submitted for the business, None while there is none.       *)
(***************************************************************************)
EXTENDS Integers, Sequences, FiniteSets, TLC

VARIABLES legal_name, legal_type, founding_date, last_ar_date, dissolution_date,
          identifier, now, elapsed, arg, store, filing, ret

vars == <<legal_name, legal_type, founding_date, last_ar_date, dissolution_date,
          identifier, now, elapsed, arg, store, filing, ret>>

(***************************************************************************)
(* Bounds of the model.                                                    *)
(***************************************************************************)
\* Instants per day the clock distinguishes.
TicksPerDay == 2
\* Clock ticks that may pass after the initial instant.
MaxElapsed == 2
\* Target report years run over MinYear..MaxYear.
MinYear == 2019
MaxYear == 2022

None == [none |-> TRUE]
NoLegalType == "<None>"
NoCall == [op |-> "none"]

(***************************************************************************)
(* The proleptic Gregorian calendar of Python's datetime module.           *)
(***************************************************************************)
IsLeap(y) == (y % 4 = 0 /\ y % 100 # 0) \/ y % 400 = 0

DaysInMonth(y, m) ==
    IF m = 2 THEN (IF IsLeap(y) THEN 29 ELSE 28)
    ELSE IF m \in {4, 6, 9, 11} THEN 30 ELSE 31

DaysBeforeYear(y) ==
    (y - 1) * 365 + (y - 1) \div 4 - (y - 1) \div 100 + (y - 1) \div 400

RECURSIVE DaysBeforeMonth(_, _)
DaysBeforeMonth(y, m) ==
    IF m = 1 THEN 0 ELSE DaysBeforeMonth(y, m - 1) + DaysInMonth(y, m - 1)

\* datetime(y, m, d) raises ValueError unless this holds.
IsValidDate(y, m, d) ==
    /\ y \in 1..9999
    /\ m \in 1..12
    /\ d \in 1..DaysInMonth(y, m)

Date(y, m, d) == [year |-> y, month |-> m, day |-> d]

\* datetime.date(): the date of a datetime.
DateOf(dt) == Date(dt.year, dt.month, dt.day)

DateTime(d, t) == [year |-> d.year, month |-> d.month, day |-> d.day, tick |-> t]

ToOrdinal(d) == DaysBeforeYear(d.year) + DaysBeforeMonth(d.year, d.month) + d.day

CalendarYears == (MinYear - 5)..(MaxYear + 5)

FromOrdinal(n) ==
    LET y == CHOOSE yy \in CalendarYears :
                 DaysBeforeYear(yy) < n /\ n <= DaysBeforeYear(yy + 1)
        r == n - DaysBeforeYear(y)
        m == CHOOSE mm \in 1..12 :
                 DaysBeforeMonth(y, mm) < r
                 /\ r <= DaysBeforeMonth(y, mm) + DaysInMonth(y, mm)
    IN  Date(y, m, r - DaysBeforeMonth(y, m))

\* date + timedelta(days=k)
DatePlusDays(d, k) == FromOrdinal(ToOrdinal(d) + k)

\* date comparison
DateLT(a, b) == ToOrdinal(a) < ToOrdinal(b)
DateLE(a, b) == ToOrdinal(a) <= ToOrdinal(b)

\* datetime comparison: an instant as a number of ticks.
Instant(dt) == ToOrdinal(DateOf(dt)) * TicksPerDay + dt.tick
DateTimeLT(a, b) == Instant(a) < Instant(b)

\* The instant one tick after dt.
NextTick(dt) ==
    IF dt.tick + 1 < TicksPerDay
    THEN [dt EXCEPT !.tick = dt.tick + 1]
    ELSE DateTime(DatePlusDays(DateOf(dt), 1), 0)

(***************************************************************************)
(* datedelta.datedelta(years, months, days) added to a date or datetime:   *)
(* years first, then months, a day that does not exist in the resulting    *)
(* month moving to the first day of the next month, and then the days.     *)
(***************************************************************************)
AddYears(d, years) ==
    LET y == d.year + years
    IN  IF years # 0 /\ d.day > DaysInMonth(y, d.month)
        THEN Date(y, d.month + 1, 1)
        ELSE Date(y, d.month, d.day)

AddMonths(d, months) ==
    LET m0 == d.month + months - 1
        y  == d.year + m0 \div 12
        m  == (m0 % 12) + 1
    IN  IF months # 0 /\ d.day > DaysInMonth(y, m)
        THEN (IF m = 12 THEN Date(y + 1, 1, 1) ELSE Date(y, m + 1, 1))
        ELSE Date(y, m, d.day)

AddDateDelta(d, years, months, days) ==
    DatePlusDays(AddMonths(AddYears(d, years), months), days)

\* The same on a datetime: the time of day is kept.
AddDateDeltaDT(dt, years, months, days) ==
    DateTime(AddDateDelta(DateOf(dt), years, months, days), dt.tick)

(***************************************************************************)
(* Business.LegalTypes values the rules distinguish, two of the others,    *)
(* and an unset legal_type.                                                 *)
(***************************************************************************)
COOP == "CP"
BCOMP == "BEN"
COMP == "BC"
LegalTypeValues == {COOP, BCOMP, COMP, "ULC", NoLegalType}

\* The target year of the 2020 extension for cooperatives.
ExtensionYear == 2020

(***************************************************************************)
(* Business.get_ar_dates                                                    *)
(***************************************************************************)
\* Lines 184-199: the window of the rule table, before the clamp to today.
\* A ValueError of the datetime constructor leaves the function.
ArRuleDates_NoExtension(lt, fd, next_ar_year) ==
    IF lt = COOP
    THEN [outcome |-> "return",
          min |-> Date(next_ar_year, 1, 1),
          max |-> Date(next_ar_year + 1, 4, 30)]
    ELSE IF lt = BCOMP
    THEN IF IsValidDate(next_ar_year, fd.month, fd.day)
         THEN [outcome |-> "return",
               min |-> Date(next_ar_year, fd.month, fd.day),
               max |-> AddDateDelta(Date(next_ar_year, fd.month, fd.day), 0, 0, 60)]
         ELSE [outcome |-> "ValueError"]
    ELSE [outcome |-> "return",
          min |-> Date(next_ar_year, 1, 1),
          max |-> Date(next_ar_year, 12, 31)]

ArRuleDates_CoopForAll(lt, fd, next_ar_year) ==
    IF lt = BCOMP
    THEN IF IsValidDate(next_ar_year, fd.month, fd.day)
         THEN [outcome |-> "return",
               min |-> Date(next_ar_year, fd.month, fd.day),
               max |-> AddDateDelta(Date(next_ar_year, fd.month, fd.day), 0, 0, 60)]
         ELSE [outcome |-> "ValueError"]
    ELSE [outcome |-> "return",
          min |-> Date(next_ar_year, 1, 1),
          max |-> IF next_ar_year = ExtensionYear
                  THEN Date(next_ar_year + 1, 10, 31)
                  ELSE Date(next_ar_year + 1, 4, 30)]

ArRuleDates(lt, fd, next_ar_year) ==
    IF lt = COOP
    THEN [outcome |-> "return",
          min |-> Date(next_ar_year, 1, 1),
          max |-> IF next_ar_year = ExtensionYear
                  THEN Date(next_ar_year + 1, 10, 31)
                  ELSE Date(next_ar_year + 1, 4, 30)]
    ELSE IF lt = BCOMP
    THEN IF IsValidDate(next_ar_year, fd.month, fd.day)
         THEN [outcome |-> "return",
               min |-> Date(next_ar_year, fd.month, fd.day),
               max |-> AddDateDelta(Date(next_ar_year, fd.month, fd.day), 0, 0, 60)]
         ELSE [outcome |-> "ValueError"]
    ELSE [outcome |-> "return",
          min |-> Date(next_ar_year, 1, 1),
          max |-> Date(next_ar_year, 12, 31)]

\* Lines 201-202: today1 and today2 are the two reads of utcnow().date().
ClampToToday_Never(ar_max_date, today1, today2) == ar_max_date

ClampToToday_FirstRead(ar_max_date, today1, today2) ==
    IF DateLT(today1, ar_max_date) THEN today1 ELSE ar_max_date

ClampToToday(ar_max_date, today1, today2) ==
    IF DateLT(today1, ar_max_date) THEN today2 ELSE ar_max_date

\* The instants the clock may show at a second read, after `t'.  The record
\* of a call keeps, as `at', the instant of its last clock read.
LaterReads(t) == {t} \cup (IF elapsed < MaxElapsed THEN {NextTick(t)} ELSE {})

Years == MinYear..MaxYear

GetArDates(next_ar_year) ==
    \E now2 \in LaterReads(now) :
        LET r == ArRuleDates(legal_type, founding_date, next_ar_year)
        IN  /\ ret' = IF r.outcome = "return"
                      THEN [op |-> "get_ar_dates", next_ar_year |-> next_ar_year,
                            outcome |-> "return", at |-> now2, min |-> r.min,
                            max |-> ClampToToday(r.max, DateOf(now), DateOf(now2))]
                      ELSE [op |-> "get_ar_dates", next_ar_year |-> next_ar_year,
                            outcome |-> r.outcome, at |-> now2]
            /\ now' = now2
            /\ elapsed' = IF now2 = now THEN elapsed ELSE elapsed + 1
            /\ UNCHANGED <<legal_name, filing, legal_type, founding_date, last_ar_date,
                           dissolution_date, identifier, arg, store>>

\* Time passing between calls.
Tick ==
    /\ elapsed < MaxElapsed
    /\ now' = NextTick(now)
    /\ elapsed' = elapsed + 1
    /\ UNCHANGED <<legal_name, filing, legal_type, founding_date, last_ar_date, dissolution_date,
                   identifier, arg, store, ret>>

Ticks == 0..(TicksPerDay - 1)

\* Founding dates: a leap day, a mid-month day, a day whose 60-day window
\* crosses the year's end, the last and the first day of a year.
ArFoundingDays ==
    {Date(2016, 2, 29), Date(2019, 3, 15), Date(2018, 11, 15),
     Date(2017, 12, 31), Date(2020, 1, 1)}

\* Current dates around the ends of the windows and after all of them.
ArTodays ==
    {Date(2019, 6, 15), Date(2020, 2, 29), Date(2020, 12, 31), Date(2021, 4, 30),
     Date(2021, 5, 13), Date(2021, 10, 31), Date(MaxYear + 2, 1, 1)}

InitAr ==
    /\ legal_name = None
    /\ filing = None
    /\ legal_type \in LegalTypeValues
    /\ founding_date \in {DateTime(d, 0) : d \in ArFoundingDays}
    /\ now \in {DateTime(d, t) : d \in ArTodays, t \in Ticks}
    /\ last_ar_date = None
    /\ dissolution_date = None
    /\ identifier = None
    /\ elapsed = 0
    /\ arg = None
    /\ store = None
    /\ ret = NoCall

NextAr ==
    \/ \E y \in Years : GetArDates(y)
    \/ Tick

SpecAr == InitAr /\ [][NextAr]_vars

(***************************************************************************)
(* Claims about get_ar_dates, checked under SpecAr.                        *)
(***************************************************************************)
ArReturned == ret.op = "get_ar_dates" /\ ret.outcome = "return"

EarlierOf(a, b) == IF DateLE(a, b) THEN a ELSE b

\* C1: the maximum date get_ar_dates returns is never later than the current
\* date; it is today (the date at return) when the rule-table maximum is
\* after today, and the rule-table maximum otherwise.
C1_MaxNeverAfterToday ==
    ArReturned =>
        LET today == DateOf(ret.at)
            rule  == ArRuleDates(legal_type, founding_date, ret.next_ar_year).max
        IN  /\ DateLE(ret.max, today)
            /\ DateLE(ret.max, DateOf(now))
            /\ ret.max = IF DateLT(today, rule) THEN today ELSE rule

\* A call whose rule-table maximum was after today and was clamped to the
\* date of a clock read made at the first instant of a day.
C1_Witness ==
    /\ ArReturned
    /\ DateLT(ret.max,
              ArRuleDates(legal_type, founding_date, ret.next_ar_year).max)
    /\ ret.max = DateOf(ret.at)
    /\ ret.at.tick = 0
    /\ elapsed = 1

\* C2: for a cooperative, get_ar_dates(Y) returns Jan 1 of Y as the minimum
\* and, as the maximum, Oct 31 of Y+1 when Y = 2020 and Apr 30 of Y+1
\* otherwise, clamped to today.
C2_CoopWindow ==
    (ret.op = "get_ar_dates" /\ legal_type = "CP") =>
        LET y == ret.next_ar_year
        IN  /\ ret.outcome = "return"
            /\ ret.min = Date(y, 1, 1)
            /\ ret.max = EarlierOf(IF y = 2020 THEN Date(y + 1, 10, 31)
                                               ELSE Date(y + 1, 4, 30),
                                   DateOf(ret.at))

\* The 2020 extension shows unclamped: Oct 31, 2021.
C2_Witness ==
    /\ ArReturned
    /\ legal_type = "CP"
    /\ ret.next_ar_year = 2020
    /\ ret.max = Date(2021, 10, 31)
    /\ DateLT(ret.max, DateOf(ret.at))

\* C3: for a benefit company, for every founding date and target year Y,
\* get_ar_dates(Y) returns the founding month/day in year Y as the minimum
\* and the minimum + 60 days as the maximum, clamped to today.
C3_BenWindow ==
    (ret.op = "get_ar_dates" /\ legal_type = "BEN") =>
        /\ ret.outcome = "return"
        /\ ret.min = Date(ret.next_ar_year, founding_date.month, founding_date.day)
        /\ ret.max = EarlierOf(DatePlusDays(ret.min, 60), DateOf(ret.at))

\* What the code does do for a benefit company: the claimed window whenever
\* the founding month/day exists in year Y, and a ValueError otherwise.
C3_BenWindowWhenAnniversaryExists ==
    (ret.op = "get_ar_dates" /\ legal_type = "BEN") =>
        IF IsValidDate(ret.next_ar_year, founding_date.month, founding_date.day)
        THEN /\ ret.outcome = "return"
             /\ ret.min = Date(ret.next_ar_year, founding_date.month,
                               founding_date.day)
             /\ ret.max = EarlierOf(DatePlusDays(ret.min, 60), DateOf(ret.at))
        ELSE ret.outcome = "ValueError"

\* C4: for a legal type that is neither cooperative nor benefit company, or
\* is unset, get_ar_dates(Y) returns Jan 1 of Y and Dec 31 of Y (clamped to
\* today), whatever the founding date.
C4_DefaultWindow ==
    (ret.op = "get_ar_dates" /\ legal_type \notin {"CP", "BEN"}) =>
        /\ ret.outcome = "return"
        /\ ret.min = Date(ret.next_ar_year, 1, 1)
        /\ ret.max = EarlierOf(Date(ret.next_ar_year, 12, 31), DateOf(ret.at))

\* An unset legal type, the window showing unclamped.
C4_Witness ==
    /\ ArReturned
    /\ legal_type = NoLegalType
    /\ ret.max = Date(ret.next_ar_year, 12, 31)
    /\ DateLT(ret.max, DateOf(ret.at))
    /\ founding_date.month # 1

\* C13, as claimed: the pair get_ar_dates returns is a window, minimum date
\* <= maximum date, for every legal type, founding date, target year and
\* current date.
C13_MinNotAfterMax ==
    ArReturned => DateLE(ret.min, ret.max)

\* C13, amended: the minimum date is <= the maximum date exactly when the
\* minimum date is not after today (the date at return); when it is after
\* today, the maximum date is today and lies before the minimum date.
C13_MinNotAfterMaxIffMinNotAfterToday ==
    ArReturned =>
        LET today == DateOf(ret.at)
        IN  /\ DateLE(ret.min, ret.max) <=> DateLE(ret.min, today)
            /\ (DateLT(today, ret.min) => ret.max = today)

\* A benefit company whose anniversary in the target year is still to come:
\* the maximum date is today, before the minimum date.
C13_Witness ==
    /\ ArReturned
    /\ legal_type = "BEN"
    /\ DateLT(DateOf(ret.at), ret.min)
    /\ ret.max = DateOf(ret.at)
    /\ DateLT(ret.max, ret.min)

(***************************************************************************)
(* Business.good_standing                                                   *)
(***************************************************************************)
\* Lines 232-234; utcnow is the instant the clock shows.
good_standing_AtBound(lar, fd, utcnow) ==
    LET d == IF lar # None THEN lar ELSE fd
    IN  ~DateTimeLT(AddDateDeltaDT(d, 1, 2, 1), utcnow)

good_standing(lar, fd, utcnow) ==
    LET d == IF lar # None THEN lar ELSE fd
    IN  DateTimeLT(utcnow, AddDateDeltaDT(d, 1, 2, 1))

GoodStanding ==
    /\ ret' = [op |-> "good_standing", at |-> now,
               value |-> good_standing(last_ar_date, founding_date, now)]
    /\ UNCHANGED <<legal_name, filing, legal_type, founding_date, last_ar_date, dissolution_date,
                   identifier, now, elapsed, arg, store>>

\* Dates whose sum with (1 year, 2 months, 1 day) needs each adjustment: a
\* plain day, a Dec 31 (no Feb 31) and a leap day (no Feb 29 a year later).
GsDays == {Date(2020, 1, 15), Date(2019, 12, 31), Date(2020, 2, 29)}

\* Instants just before the three sums, and well before and after them.
GsNows ==
    {DateTime(Date(2021, 3, 15), TicksPerDay - 1),
     DateTime(Date(2021, 3, 1), TicksPerDay - 1),
     DateTime(Date(2021, 5, 1), TicksPerDay - 1),
     DateTime(Date(2021, 3, 2), 0),
     DateTime(Date(2020, 6, 1), 0),
     DateTime(Date(2022, 1, 1), 0)}

InitGs ==
    /\ legal_name = None
    /\ filing = None
    /\ legal_type \in {COOP, BCOMP}
    /\ founding_date \in {DateTime(d, t) : d \in GsDays, t \in Ticks}
    /\ last_ar_date \in {None} \cup {DateTime(d, t) : d \in GsDays, t \in Ticks}
    /\ dissolution_date \in {None, DateTime(Date(2020, 12, 1), 0)}
    /\ now \in GsNows
    /\ identifier = None
    /\ elapsed = 0
    /\ arg = None
    /\ store = None
    /\ ret = NoCall

NextGs ==
    \/ GoodStanding
    \/ Tick

SpecGs == InitGs /\ [][NextGs]_vars

(***************************************************************************)
(* Claims about good_standing, checked under SpecGs.                        *)
(***************************************************************************)
\* C5: good_standing is true exactly when now < D + (1 year, 2 months,
\* 1 day), D being last_ar_date if set and founding_date otherwise; it is
\* false when now equals that bound, and no other field decides it.
C5_GoodStandingIffBeforeBound ==
    ret.op = "good_standing" =>
        LET d     == IF last_ar_date = None THEN founding_date ELSE last_ar_date
            bound == AddDateDeltaDT(d, 1, 2, 1)
        IN  /\ ret.value = (Instant(ret.at) < Instant(bound))
            /\ (ret.at = bound => ret.value = FALSE)

\* good_standing read at the very instant of the bound of a last_ar_date
\* that differs from the founding date's bound.
C5_Witness ==
    /\ ret.op = "good_standing"
    /\ last_ar_date # None
    /\ ret.at = AddDateDeltaDT(last_ar_date, 1, 2, 1)
    /\ DateTimeLT(ret.at, AddDateDeltaDT(founding_date, 1, 2, 1))
    /\ ret.value = FALSE

(***************************************************************************)
(* Business.validate_identifier.  A string is a sequence of one-character  *)
(* strings.                                                                 *)
(***************************************************************************)
Str2(a, b) == <<a, b>>

Digits == {"0", "1", "2", "3", "4", "5", "6", "7", "8", "9"}

DigitValue(c) ==
    CASE c = "0" -> 0 [] c = "1" -> 1 [] c = "2" -> 2 [] c = "3" -> 3
      [] c = "4" -> 4 [] c = "5" -> 5 [] c = "6" -> 6 [] c = "7" -> 7
      [] c = "8" -> 8 [] c = "9" -> 9

\* The number of trailing characters validate_identifier reads as the number.
SuffixLen == 7
\* The least length of an identifier that is no name request.
MinIdentifierLen == 9

\* s[:k], s[-k:] and s[:-k] of Python, for k > 0.
SliceTo(s, k) == SubSeq(s, 1, IF k < Len(s) THEN k ELSE Len(s))
SliceLast(s, k) == SubSeq(s, (IF Len(s) > k THEN Len(s) - k ELSE 0) + 1, Len(s))
SliceButLast(s, k) == SubSeq(s, 1, IF Len(s) > k THEN Len(s) - k ELSE 0)

\* str.strip() as int() applies it: whitespace off both ends.
RECURSIVE LStrip(_)
LStrip(s) == IF s # <<>> /\ Head(s) = " " THEN LStrip(Tail(s)) ELSE s

RECURSIVE RStrip(_)
RStrip(s) ==
    IF s # <<>> /\ s[Len(s)] = " " THEN RStrip(SubSeq(s, 1, Len(s) - 1)) ELSE s

RECURSIVE DecimalValue(_, _)
DecimalValue(s, acc) ==
    IF s = <<>> THEN acc
    ELSE IF Head(s) = "_" THEN DecimalValue(Tail(s), acc)
    ELSE DecimalValue(Tail(s), 10 * acc + DigitValue(Head(s)))

\* int(s) of Python, base 10: surrounding whitespace, one optional sign, then
\* decimal digits that single underscores may separate.  ok = FALSE is the
\* ValueError.
IntParse(s) ==
    LET t      == RStrip(LStrip(s))
        signed == t # <<>> /\ Head(t) \in {"+", "-"}
        body   == IF signed THEN Tail(t) ELSE t
        wellFormed ==
            /\ body # <<>>
            /\ body[1] \in Digits
            /\ body[Len(body)] \in Digits
            /\ \A i \in 1..Len(body) : body[i] \in Digits \cup {"_"}
            /\ \A i \in 1..(Len(body) - 1) : ~(body[i] = "_" /\ body[i + 1] = "_")
    IN  IF wellFormed
        THEN [ok |-> TRUE,
              value |-> IF signed /\ Head(t) = "-"
                        THEN 0 - DecimalValue(body, 0)
                        ELSE DecimalValue(body, 0)]
        ELSE [ok |-> FALSE, value |-> 0]

KnownPrefixes == {Str2("C", "P"), <<"X", "C", "P">>, Str2("B", "C")}

\* Lines 352-368.
validate_identifier_ZeroAccepted(s) ==
    IF SliceTo(s, 2) = Str2("N", "R") THEN TRUE
    ELSE IF Len(s) < MinIdentifierLen THEN FALSE
    ELSE IF ~IntParse(SliceLast(s, SuffixLen)).ok THEN FALSE
    ELSE IF SliceButLast(s, SuffixLen) \notin KnownPrefixes THEN FALSE
    ELSE TRUE

validate_identifier(s) ==
    IF SliceTo(s, 2) = Str2("N", "R") THEN TRUE
    ELSE IF Len(s) < MinIdentifierLen THEN FALSE
    ELSE IF ~IntParse(SliceLast(s, SuffixLen)).ok THEN FALSE
    ELSE IF IntParse(SliceLast(s, SuffixLen)).value = 0 THEN FALSE
    ELSE IF SliceButLast(s, SuffixLen) \notin KnownPrefixes THEN FALSE
    ELSE TRUE

ValidateIdentifier ==
    /\ ret' = [op |-> "validate_identifier", value |-> validate_identifier(arg)]
    /\ UNCHANGED <<legal_name, filing, legal_type, founding_date, last_ar_date, dissolution_date,
                   identifier, now, elapsed, arg, store>>

\* The strings validate_identifier is given: a prefix, then SuffixLen
\* characters that are binary digits but for at most two places, each
\* holding a sign, a blank, an underscore or a letter; and some others.
TailBases == [1..SuffixLen -> {"0", "1"}]
OddChars == {"+", "-", " ", "_", "A"}
Tails ==
    TailBases
    \cup {[b EXCEPT ![i] = c] : b \in TailBases, i \in 1..SuffixLen, c \in OddChars}
    \cup {[b EXCEPT ![i] = c, ![j] = "_"] :
              b \in TailBases, i \in 1..3, j \in 1..SuffixLen, c \in {"+", " "}}
    \cup {[b EXCEPT ![i] = " ", ![j] = c] :
              b \in TailBases, i \in 6..SuffixLen, j \in 1..2, c \in {"-", " "}}

IdPrefixes ==
    {<<>>, <<"N">>, Str2("N", "R"), Str2("C", "P"), <<"X", "C", "P">>,
     Str2("B", "C"), <<"B", "E", "N">>, <<"C", "P", "1">>}

OtherIdentifiers ==
    {<<"C", "P", "1", "2", "3", "4", "5", "6", "7">>,
     <<"C", "P", "0", "0", "0", "0", "0", "0", "0">>,
     <<"X", "C", "P", "1", "2", "3", "4", "5", "6", "7">>,
     <<"B", "C", "1", "2", "3", "4", "5", "6", "7">>,
     <<"c", "p", "1", "2", "3", "4", "5", "6", "7">>,
     <<"C", "P", "1", "2", "3", "4", "5", "6">>,
     <<"C", "P", "8", "9">>,
     <<"N", "R", "x", "y", "z">>,
     <<"N", "R", " ", "0">>,
     <<"R", "N", "1", "2", "3", "4", "5", "6", "7">>,
     <<"1", "2", "3", "4", "5", "6", "7">>}

Identifiers == {p \o t : p \in IdPrefixes, t \in Tails} \cup IdPrefixes \cup OtherIdentifiers

InitId ==
    /\ legal_name = None
    /\ filing = None
    /\ arg \in Identifiers
    /\ legal_type = NoLegalType
    /\ founding_date = None
    /\ last_ar_date = None
    /\ dissolution_date = None
    /\ identifier = None
    /\ now = None
    /\ elapsed = 0
    /\ store = None
    /\ ret = NoCall

NextId == ValidateIdentifier

SpecId == InitId /\ [][NextId]_vars

(***************************************************************************)
(* Claims about validate_identifier, checked under SpecId.                 *)
(***************************************************************************)
AllDigits(s) == \A i \in 1..Len(s) : s[i] \in Digits

C7_AcceptedIsPrefixAndSevenDigits ==
    (/\ ret.op = "validate_identifier"
     /\ ret.value
     /\ SliceTo(arg, 2) # <<"N", "R">>) =>
        /\ Len(arg) \in {9, 10}
        /\ SubSeq(arg, 1, Len(arg) - 7) \in {<<"C", "P">>, <<"X", "C", "P">>, <<"B", "C">>}
        /\ AllDigits(SubSeq(arg, Len(arg) - 6, Len(arg)))

(***************************************************************************)
(* The identifier property's setter (lines 165-171).  `identifier' is the  *)
(* stored column _identifier.                                               *)
(***************************************************************************)
SetIdentifier_StoresThenRaises(value) ==
    /\ identifier' = value
    /\ ret' = IF validate_identifier(value)
              THEN [op |-> "set_identifier", value |-> value, outcome |-> "ok"]
              ELSE [op |-> "set_identifier", value |-> value,
                    outcome |-> "BusinessException",
                    error |-> "invalid-identifier-format", status_code |-> 406]
    /\ UNCHANGED <<legal_name, filing, legal_type, founding_date, last_ar_date, dissolution_date,
                   now, elapsed, arg, store>>

SetIdentifier(value) ==
    /\ IF validate_identifier(value)
       THEN /\ identifier' = value
            /\ ret' = [op |-> "set_identifier", value |-> value, outcome |-> "ok"]
       ELSE /\ identifier' = identifier
            /\ ret' = [op |-> "set_identifier", value |-> value,
                       outcome |-> "BusinessException",
                       error |-> "invalid-identifier-format", status_code |-> 406]
    /\ UNCHANGED <<legal_name, filing, legal_type, founding_date, last_ar_date, dissolution_date,
                   now, elapsed, arg, store>>

\* The values assigned: the other identifiers, and some with a tail that is
\* no plain number.
AssignedIdentifiers ==
    OtherIdentifiers
    \cup {p \o t : p \in {Str2("C", "P"), Str2("N", "R"), <<"B", "E", "N">>},
                   t \in {<<"0", "0", "0", "0", "0", "0", "1">>,
                          <<"+", "0", "0", "0", "0", "1", "0">>,
                          <<"0", "0", "_", "0", "0", "A", "0">>,
                          <<"1", "0", "0", "_", "_", "0", "1">>}}

InitSet ==
    /\ legal_name = None
    /\ filing = None
    /\ identifier = None
    /\ arg = None
    /\ legal_type = NoLegalType
    /\ founding_date = None
    /\ last_ar_date = None
    /\ dissolution_date = None
    /\ now = None
    /\ elapsed = 0
    /\ store = None
    /\ ret = NoCall

NextSet == \E value \in AssignedIdentifiers : SetIdentifier(value)

SpecSet == InitSet /\ [][NextSet]_vars

(***************************************************************************)
(* Claims about the setter, checked under SpecSet.                         *)
(***************************************************************************)
\* C8: assigning a value validate_identifier refuses fails with the
\* 'invalid-identifier-format' BusinessException (code 406) and leaves the
\* stored identifier as it was; assigning a value it accepts stores that
\* value; so the stored identifier is always unset or a value that passed
\* validate_identifier.
C8_SetterStoresOnlyValid ==
    /\ [](identifier = None \/ validate_identifier(identifier))
    /\ [][ret'.op = "set_identifier" =>
            IF validate_identifier(ret'.value)
            THEN /\ ret'.outcome = "ok"
                 /\ identifier' = ret'.value
            ELSE /\ ret'.outcome = "BusinessException"
                 /\ ret'.error = "invalid-identifier-format"
                 /\ ret'.status_code = 406
                 /\ identifier' = identifier]_vars

\* A refused assignment made while a valid identifier is stored.
C8_Witness ==
    /\ ret.op = "set_identifier"
    /\ ret.outcome = "BusinessException"
    /\ identifier # None
    /\ identifier = <<"C", "P", "1", "2", "3", "4", "5", "6", "7">>
    /\ ret.value = <<"C", "P", "0", "0", "0", "0", "0", "0", "0">>

(***************************************************************************)
(* The dissolution filing validator, validate(business, con).  The caller  *)
(* passes the business or None, and a filing document: None or a dict,     *)
(* here the set of its top-level keys.                                     *)
(***************************************************************************)
NoDocument == [kind |-> "None"]
Document(keys) == [kind |-> "dict", keys |-> keys]

\* Python's truth value of a Business or None, and of a dict or None.
BusinessIsTruthy(b) == b # "None"
DocumentIsTruthy(con) == con.kind = "dict" /\ con.keys # {}

\* Error(HTTPStatus.BAD_REQUEST, [{'error': ...}])
Error(code, msg) == [kind |-> "Error", code |-> code, msg |-> msg]
BAD_REQUEST == 400
NoError == [kind |-> "None"]

\* Lines 26-29.
validate_BothMissing(b, con) ==
    IF ~BusinessIsTruthy(b) /\ ~DocumentIsTruthy(con)
    THEN Error(BAD_REQUEST, <<[error |-> "A valid business and filing are required."]>>)
    ELSE NoError

validate(b, con) ==
    IF ~BusinessIsTruthy(b) \/ ~DocumentIsTruthy(con)
    THEN Error(BAD_REQUEST, <<[error |-> "A valid business and filing are required."]>>)
    ELSE NoError

Documents ==
    {NoDocument, Document({}), Document({"filing"}),
     Document({"header", "business", "dissolution"}), Document({"alteration"})}

Validate(b, con) ==
    /\ ret' = [op |-> "validate", business |-> b, con |-> con,
               outcome |-> "return", value |-> validate(b, con)]
    /\ UNCHANGED <<legal_name, filing, legal_type, founding_date, last_ar_date, dissolution_date,
                   identifier, now, elapsed, arg, store>>

\* A dissolution date: the business is dissolved already.
DissolutionDates == {DateTime(Date(2020, 12, 1), 0), DateTime(Date(2021, 7, 1), 0)}

InitVal ==
    /\ legal_name = None
    /\ filing = None
    /\ legal_type \in LegalTypeValues
    /\ dissolution_date \in {None} \cup DissolutionDates
    /\ founding_date \in {DateTime(Date(2019, 3, 15), 0), DateTime(Date(2016, 2, 29), 0)}
    /\ last_ar_date = None
    /\ identifier = None
    /\ now = None
    /\ elapsed = 0
    /\ arg = None
    /\ store = None
    /\ ret = NoCall

NextVal == \E b \in {"None", "self"}, con \in Documents : Validate(b, con)

SpecVal == InitVal /\ [][NextVal]_vars

(***************************************************************************)
(* Claims about the dissolution validator, checked under SpecVal.          *)
(***************************************************************************)
\* C9: validate(business, con) returns an Error (HTTP 400, one error in its
\* list) and raises nothing when the business is missing or the document is
\* missing or empty, and None in every other case, whatever the state of
\* the business and the contents of the document.
C9_ErrorIffMissing ==
    ret.op = "validate" =>
        /\ ret.outcome = "return"
        /\ IF ret.business = "None" \/ ret.con = NoDocument \/ ret.con = Document({})
           THEN /\ ret.value.kind = "Error"
                /\ ret.value.code = 400
                /\ Len(ret.value.msg) = 1
           ELSE ret.value = [kind |-> "None"]

\* A business dissolved already and a document that is no dissolution
\* filing are found valid.
C9_Witness ==
    /\ ret.op = "validate"
    /\ ret.business = "self"
    /\ dissolution_date # None
    /\ ret.con = Document({"alteration"})
    /\ ret.value = [kind |-> "None"]

(***************************************************************************)
(* Business.save and Business.delete.  `store' is the row of the business  *)
(* in the database, None until the first commit.                           *)
(***************************************************************************)
\* The primary key of the one business of the model.
BusinessId == 1

BusinessRow ==
    [id |-> BusinessId, legal_name |-> legal_name, legal_type |-> legal_type,
     founding_date |-> founding_date,
     last_ar_date |-> last_ar_date, dissolution_date |-> dissolution_date,
     identifier |-> identifier]

\* Lines 236-239: db.session.add(self); db.session.commit()
Save ==
    /\ store' = BusinessRow
    /\ ret' = [op |-> "save"]
    /\ UNCHANGED <<legal_name, filing, legal_type, founding_date, last_ar_date, dissolution_date,
                   identifier, now, elapsed, arg>>

\* Lines 241-248.
Delete_Physical ==
    /\ store' = IF dissolution_date # None THEN BusinessRow ELSE None
    /\ ret' = [op |-> "delete", value |-> BusinessRow]
    /\ UNCHANGED <<legal_name, filing, legal_type, founding_date, last_ar_date, dissolution_date,
                   identifier, now, elapsed, arg>>

Delete ==
    /\ store' = IF dissolution_date # None THEN BusinessRow ELSE store
    /\ ret' = [op |-> "delete", value |-> BusinessRow]
    /\ UNCHANGED <<legal_name, filing, legal_type, founding_date, last_ar_date, dissolution_date,
                   identifier, now, elapsed, arg>>

\* Line 140: a caller assigns the dissolution_date attribute.
SetDissolutionDate(d) ==
    /\ dissolution_date' = d
    /\ ret' = [op |-> "set_dissolution_date"]
    /\ UNCHANGED <<legal_name, filing, legal_type, founding_date, last_ar_date, identifier, now,
                   elapsed, arg, store>>

InitStore ==
    /\ legal_name = None
    /\ filing = None
    /\ legal_type \in LegalTypeValues
    /\ founding_date \in {DateTime(Date(2019, 3, 15), 0), DateTime(Date(2016, 2, 29), 0)}
    /\ dissolution_date = None
    /\ last_ar_date = None
    /\ identifier = None
    /\ now = None
    /\ elapsed = 0
    /\ arg = None
    /\ store = None
    /\ ret = NoCall

NextStore ==
    \/ Save
    \/ Delete
    \/ \E d \in {None} \cup DissolutionDates : SetDissolutionDate(d)

SpecStore == InitStore /\ [][NextStore]_vars

(***************************************************************************)
(* Claims about save and delete, checked under SpecStore.                  *)
(***************************************************************************)
\* C10: delete never removes a business from the store and never changes
\* its dissolution_date, and neither does save: a persisted business stays
\* persisted, with the dissolution_date it had or the one the business has;
\* delete saves the business if and only if its dissolution_date is set, leaves
\* the store as it is otherwise, and returns the business itself.
C10_DeleteNeverRemoves ==
    [][ret'.op \in {"save", "delete"} =>
          /\ dissolution_date' = dissolution_date
          /\ (store # None =>
                 /\ store' # None
                 /\ store'.dissolution_date
                        \in {store.dissolution_date, dissolution_date})
          /\ (ret'.op = "delete" =>
                 /\ store' = IF dissolution_date # None THEN BusinessRow ELSE store
                 /\ ret'.value = BusinessRow
                 /\ BusinessRow' = BusinessRow)]_vars

\* delete, called on a persisted business whose dissolution_date is unset
\* while the stored row has one, has left the stored row in place.
C10_Witness ==
    /\ ret.op = "delete"
    /\ dissolution_date = None
    /\ store # None
    /\ store.dissolution_date # None

(***************************************************************************)
(* The lookups find_by_legal_name, find_by_identifier, find_by_internal_id. *)
(* `db' is what the database does with the query: it answers ("ok") or    *)
(* SQLAlchemy raises the named exception.  A lookup gives                  *)
(* [outcome |-> "return", value |-> the row or None], or the exception     *)
(* that leaves it as its outcome.                                           *)
(***************************************************************************)
DbOutcomes == {"ok", "OperationalError", "ResourceClosedError"}

Returned(v) == [outcome |-> "return", value |-> v]
Raised(e) == [outcome |-> e]

\* query.filter_by(...).one_or_none() on the table `st', `matches' telling
\* whether the stored row passes the filters.
OneOrNone(st, matches, db) ==
    IF db # "ok" THEN Raised(db)
    ELSE IF st # None /\ matches THEN Returned(st)
    ELSE Returned(None)

\* Lines 290-302; the empty string stands for a name that is None or empty.
find_by_legal_name(st, name, db) ==
    IF name # ""
    THEN LET q == OneOrNone(st, st # None /\ st.legal_name = name
                                /\ st.dissolution_date = None, db)
         IN  IF q.outcome \in {"OperationalError", "ResourceClosedError"}
             THEN Returned(None)
             ELSE q
    ELSE Returned(None)

\* Lines 304-310; the empty sequence stands for an identifier that is None
\* or empty.
find_by_identifier(st, ident, db) ==
    IF ident # <<>>
    THEN OneOrNone(st, st # None /\ st.identifier = ident, db)
    ELSE Returned(None)

\* Lines 312-318; 0 stands for an id that is None or 0.
find_by_internal_id_ActiveOnly(st, internal_id, db) ==
    IF internal_id # 0
    THEN OneOrNone(st, st # None /\ st.id = internal_id
                       /\ st.dissolution_date = None, db)
    ELSE Returned(None)

find_by_internal_id(st, internal_id, db) ==
    IF internal_id # 0
    THEN OneOrNone(st, st # None /\ st.id = internal_id, db)
    ELSE Returned(None)

FindByLegalName(name, db) ==
    /\ ret' = [op |-> "find_by_legal_name", key |-> name, db |-> db,
               result |-> find_by_legal_name(store, name, db)]
    /\ UNCHANGED <<legal_name, filing, legal_type, founding_date, last_ar_date,
                   dissolution_date, identifier, now, elapsed, arg, store>>

FindByIdentifier(ident, db) ==
    /\ ret' = [op |-> "find_by_identifier", key |-> ident, db |-> db,
               result |-> find_by_identifier(store, ident, db)]
    /\ UNCHANGED <<legal_name, filing, legal_type, founding_date, last_ar_date,
                   dissolution_date, identifier, now, elapsed, arg, store>>

FindByInternalId(internal_id, db) ==
    /\ ret' = [op |-> "find_by_internal_id", key |-> internal_id, db |-> db,
               result |-> find_by_internal_id(store, internal_id, db)]
    /\ UNCHANGED <<legal_name, filing, legal_type, founding_date, last_ar_date,
                   dissolution_date, identifier, now, elapsed, arg, store>>

LegalNames == {"ACME LTD.", "BETA COOP"}
StoredIdentifiers ==
    {<<"C", "P", "1", "2", "3", "4", "5", "6", "7">>,
     <<"B", "C", "1", "2", "3", "4", "5", "6", "7">>}

\* A business, saved or not yet saved.
InitFind ==
    /\ legal_name \in LegalNames
    /\ identifier \in StoredIdentifiers
    /\ legal_type \in {COOP, COMP}
    /\ dissolution_date \in {None, DateTime(Date(2020, 12, 1), 0)}
    /\ founding_date = DateTime(Date(2019, 3, 15), 0)
    /\ last_ar_date = None
    /\ filing = None
    /\ now = None
    /\ elapsed = 0
    /\ arg = None
    /\ store \in {None, BusinessRow}
    /\ ret = NoCall

NextFind ==
    \/ \E name \in LegalNames \cup {""}, db \in DbOutcomes : FindByLegalName(name, db)
    \/ \E ident \in StoredIdentifiers \cup {<<>>}, db \in DbOutcomes :
           FindByIdentifier(ident, db)
    \/ \E internal_id \in 0..(BusinessId + 1), db \in DbOutcomes :
           FindByInternalId(internal_id, db)

SpecFind == InitFind /\ [][NextFind]_vars

(***************************************************************************)
(* Claims about the lookups, checked under SpecFind.                       *)
(***************************************************************************)
IsLookup == ret.op \in {"find_by_legal_name", "find_by_identifier",
                        "find_by_internal_id"}

\* C11: a database connectivity failure during a business lookup
\* (find_by_legal_name, find_by_identifier, find_by_internal_id) is reported
\* as "not found" (None) and is not propagated to the caller.
C11_DbFailureIsNotFound ==
    (IsLookup /\ ret.db # "ok") => ret.result = [outcome |-> "return", value |-> None]

\* What the code does: find_by_legal_name alone turns the failure into
\* None; the other two let the exception of a query they make leave them.
C11_OnlyLegalNameSwallowsDbFailure ==
    (IsLookup /\ ret.db # "ok") =>
        LET queried == CASE ret.op = "find_by_identifier" -> ret.key # <<>>
                         [] ret.op = "find_by_internal_id" -> ret.key # 0
                         [] OTHER -> ret.key # ""
        IN  IF ret.op = "find_by_legal_name" \/ ~queried
            THEN ret.result = [outcome |-> "return", value |-> None]
            ELSE ret.result = [outcome |-> ret.db]

(***************************************************************************)
(* Alteration filings: the filing a caller submits, the alteration         *)
(* processor, and the worker's process_filing on a filing-completion       *)
(* message.                                                                 *)
(***************************************************************************)
\* The primary key of the one filing of the model.
FilingId == 1

\* The filing document: filing.business.legalType is the type the business
\* has, filing.alteration.business.legalType the type it is to get.
AlterationFiling(orig_legal_type, new_legal_type) ==
    [id |-> FilingId, business_id |-> BusinessId,
     business |-> [legalType |-> orig_legal_type],
     alteration |-> [business |-> [legalType |-> new_legal_type]]]

AlteredTypes == {COMP, BCOMP, COOP}

\* create_filing(payment_id, filing, business_id=business.id)
CreateFiling(new_legal_type) ==
    /\ store # None
    /\ filing' = AlterationFiling(legal_type, new_legal_type)
    /\ ret' = [op |-> "create_filing"]
    /\ UNCHANGED <<legal_name, legal_type, founding_date, last_ar_date,
                   dissolution_date, identifier, now, elapsed, arg, store>>

\* alteration.process(business, filing_submission, filing): the business
\* takes the legal type of the filing's alteration.business sub-object.
AlterationProcess ==
    /\ filing # None
    /\ legal_type' = filing.alteration.business.legalType
    /\ ret' = [op |-> "alteration.process"]
    /\ UNCHANGED <<legal_name, filing, founding_date, last_ar_date,
                   dissolution_date, identifier, now, elapsed, arg, store>>

\* process_filing(filing_msg, app): the worker loads the filing of the
\* message and its business, runs the processor of the filing's type and
\* saves the business.  A message may be delivered more than once.
ProcessFiling(filing_msg) ==
    /\ filing # None
    /\ filing_msg.filing.id = filing.id
    /\ LET found == find_by_internal_id(store, filing.business_id, "ok").value
       IN  IF found # None
           THEN /\ legal_type' = filing.alteration.business.legalType
                /\ store' = [found EXCEPT
                                !.legal_type = filing.alteration.business.legalType]
                /\ ret' = [op |-> "process_filing", outcome |-> "processed"]
           ELSE /\ UNCHANGED <<legal_type, store>>
                /\ ret' = [op |-> "process_filing", outcome |-> "no business"]
    /\ UNCHANGED <<legal_name, filing, founding_date, last_ar_date,
                   dissolution_date, identifier, now, elapsed, arg>>

\* create_business(identifier, legal_type=...): a saved business.
InitAlt ==
    /\ legal_name \in LegalNames
    /\ identifier = <<"B", "C", "1", "2", "3", "4", "5", "6", "7">>
    /\ legal_type \in AlteredTypes
    /\ dissolution_date \in {None, DateTime(Date(2020, 12, 1), 0)}
    /\ founding_date = DateTime(Date(2019, 3, 15), 0)
    /\ last_ar_date = None
    /\ filing = None
    /\ now = None
    /\ elapsed = 0
    /\ arg = None
    /\ store = BusinessRow
    /\ ret = NoCall

NextAlt ==
    \/ \E new_legal_type \in AlteredTypes : CreateFiling(new_legal_type)
    \/ AlterationProcess
    \/ ProcessFiling([filing |-> [id |-> FilingId]])
    \/ Save

SpecAlt == InitAlt /\ [][NextAlt]_vars

=============================================================================
